---- MODULE Spec2Model ----
(***************************************************************************)
(* A model of music21/graph/utilities.py: the optional-dependency loader   *)
(* getExtendedModules, the accidental glyph converter, the format and      *)
(* value synonym resolvers and the colour normaliser getColor.             *)
(*                                                                         *)
(* Every function of the module is called by an action of its own; the     *)
(* state records the last call (op, arg, ret) and the process environment  *)
(* the functions read: music21.base._missingImport, the optional packages  *)
(* that are installed, the interpreter generation (six.PY2) and the        *)
(* generation of the vendored webcolors library.                           *)
(*                                                                         *)
(* Representation.  A Python str is a sequence of one-character strings;   *)
(* Join turns it into a TLA+ string where the code uses it as a dictionary *)
(* key, a tuple member or an error message.  A Python int is               *)
(* [tag |-> "int", v |-> n]; a Python float is [tag |-> "float", v |-> m]  *)
(* with m the value in thousandths (0.8 is 800), computed exactly.  The    *)
(* glyphs U+266D and U+266F are the one-character strings "U+266D" and     *)
(* "U+266F".                                                               *)
(***************************************************************************)
EXTENDS Integers, Sequences, FiniteSets, TLC

VARIABLES
    _missingImport,     \* music21.base._missingImport (names that failed to import)
    installed,          \* the optional packages importable in this process
    PY2,                \* six.PY2
    webcolorsClamps,    \* vendored webcolors normalises out-of-range triplets
    imported,           \* import statements getExtendedModules has executed
    itemOrder,          \* the order unicodeFromModifier.items() came in
    warned,             \* environLocal.warn was called by the last call
    op,                 \* the function called last
    arg,                \* its argument
    ret                 \* its outcome: a return value or a raised exception

vars == <<_missingImport, installed, PY2, webcolorsClamps, imported, itemOrder, warned, op, arg, ret>>

env == <<_missingImport, installed, PY2, webcolorsClamps>>

(***************************************************************************)
(* Bounds of the model.                                                    *)
(***************************************************************************)
MaxStrLen == 4      \* generated strings have at most this many characters
MaxListLen == 3     \* generated lists of numbers have at most this many elements
MaxValues == 2      \* value lists have at most this many elements

(***************************************************************************)
(* Python values and outcomes.                                             *)
(***************************************************************************)
PyStr(s) == [tag |-> "str", v |-> s]
PyInt(n) == [tag |-> "int", v |-> n]
PyFloat(m) == [tag |-> "float", v |-> m]
PyBool(b) == [tag |-> "bool", v |-> b]
PyList(l) == [tag |-> "list", v |-> l]
PyNone == [tag |-> "NoneType", v |-> "None"]

Return(x) == [kind |-> "return", val |-> x]
Raise(e, m) == [kind |-> "raise", exc |-> e, msg |-> m]

\* the value of a number in thousandths
Milli(x) == IF x.tag = "int" THEN 1000 * x.v ELSE x.v

RECURSIVE Join(_)
Join(s) == IF s = <<>> THEN "" ELSE Head(s) \o Join(Tail(s))

RECURSIVE SeqsUpTo(_, _)
SeqsUpTo(S, n) ==
    IF n = 0 THEN {<<>>}
    ELSE LET shorter == SeqsUpTo(S, n - 1)
         IN  shorter \cup {Append(s, c) : s \in {t \in shorter : Len(t) = n - 1}, c \in S}

(***************************************************************************)
(* str.lower() and str.replace(' ', '').                                   *)
(***************************************************************************)
Upper == <<"A","B","C","D","E","F","G","H","I","J","K","L","M",
           "N","O","P","Q","R","S","T","U","V","W","X","Y","Z">>
Lower == <<"a","b","c","d","e","f","g","h","i","j","k","l","m",
           "n","o","p","q","r","s","t","u","v","w","x","y","z">>

lowerChar(c) ==
    IF \E i \in 1..26 : Upper[i] = c
    THEN Lower[CHOOSE i \in 1..26 : Upper[i] = c]
    ELSE c

lower(s) == [i \in 1..Len(s) |-> lowerChar(s[i])]

RECURSIVE removeSpaces(_)
removeSpaces(s) ==
    IF s = <<>> THEN <<>>
    ELSE IF Head(s) = " " THEN removeSpaces(Tail(s))
         ELSE <<Head(s)>> \o removeSpaces(Tail(s))

\* value.lower().replace(' ', '')
normalise(s) == removeSpaces(lower(s))

(***************************************************************************)
(* music21.ext.webcolors, as far as getColor uses it.                      *)
(***************************************************************************)
HexLower == <<"0","1","2","3","4","5","6","7","8","9","a","b","c","d","e","f">>
HexChars == {HexLower[i] : i \in 1..16} \cup {"A","B","C","D","E","F"}

\* HEX_COLOR_RE = ^#([a-fA-F0-9]{3}|[a-fA-F0-9]{6})$ ; in Python "$" also
\* matches just before a newline that ends the string.
HEX_COLOR_RE_digits(s) ==
    LET t == IF Len(s) > 0 /\ s[Len(s)] = "\n" THEN SubSeq(s, 1, Len(s) - 1) ELSE s
    IN  IF /\ Len(t) \in {4, 7}
           /\ t[1] = "#"
           /\ \A i \in 2..Len(t) : t[i] \in HexChars
        THEN SubSeq(t, 2, Len(t))
        ELSE <<>>                       \* no match

RECURSIVE double(_)
double(s) == IF s = <<>> THEN <<>> ELSE <<Head(s), Head(s)>> \o double(Tail(s))

normalize_hex(hex_value) ==
    LET hex_digits == HEX_COLOR_RE_digits(hex_value)
    IN  IF hex_digits = <<>>
        THEN Raise("ValueError", "'" \o Join(hex_value) \o "' is not a valid hexadecimal color value.")
        ELSE Return(<<"#">> \o lower(IF Len(hex_digits) = 3 THEN double(hex_digits) ELSE hex_digits))

\* an excerpt of the 147 entries of the CSS3 name table
css3_names_to_hex ==
    [n \in {"black", "blue", "cyan", "gray", "green", "magenta", "red",
            "steelblue", "white", "yellow"} |->
        CASE n = "black"     -> <<"#","0","0","0","0","0","0">>
          [] n = "blue"      -> <<"#","0","0","0","0","f","f">>
          [] n = "cyan"      -> <<"#","0","0","f","f","f","f">>
          [] n = "gray"      -> <<"#","8","0","8","0","8","0">>
          [] n = "green"     -> <<"#","0","0","8","0","0","0">>
          [] n = "magenta"   -> <<"#","f","f","0","0","f","f">>
          [] n = "red"       -> <<"#","f","f","0","0","0","0">>
          [] n = "steelblue" -> <<"#","4","6","8","2","b","4">>
          [] n = "white"     -> <<"#","f","f","f","f","f","f">>
          [] n = "yellow"    -> <<"#","f","f","f","f","0","0">>]

RECURSIVE hex(_)
hex(n) == IF n < 16 THEN <<HexLower[n + 1]>> ELSE hex(n \div 16) \o <<HexLower[(n % 16) + 1]>>

\* '%02x' % n
fmt02x(n) ==
    IF n < 0 THEN <<"-">> \o hex(0 - n)
    ELSE IF n < 16 THEN <<"0">> \o hex(n)
    ELSE hex(n)

clamp(n, lo, hi) == IF n < lo THEN lo ELSE IF n > hi THEN hi ELSE n

\* rgb_to_hex: '#%02x%02x%02x' % triplet.  %x takes a float on Python 2
\* (truncated) and refuses it on Python 3.
rgb_to_hex(rgb_triplet, py2, clamps) ==
    IF Len(rgb_triplet) # 3
    THEN Raise("TypeError", "not enough arguments for format string")
    ELSE IF ~py2 /\ \E i \in 1..3 : rgb_triplet[i].tag = "float"
    THEN Raise("TypeError", "%x format: an integer is required, not float")
    ELSE LET n(i) == LET x == rgb_triplet[i]
                         w == IF x.tag = "int" THEN x.v ELSE x.v \div 1000
                     IN  IF clamps THEN clamp(w, 0, 255) ELSE w
         IN  Return(<<"#">> \o fmt02x(n(1)) \o fmt02x(n(2)) \o fmt02x(n(3)))

\* _percent_to_integer: float(percent) / 100 * 255, rounded half up.
\* p is the percentage in thousandths of a percent.
\* (p / 100000 * 255 + 1/2, floored, with the fraction reduced by 10.)
_percent_to_integer(p) == (51 * p + 10000) \div 20000

rgb_percent_to_hex(rgb_percent_triplet, py2, clamps) ==
    rgb_to_hex([i \in 1..Len(rgb_percent_triplet) |->
                   LET p == rgb_percent_triplet[i].v
                   IN  PyInt(_percent_to_integer(IF clamps THEN clamp(p, 0, 100000) ELSE p))],
               py2, clamps)

(***************************************************************************)
(* music21.common.isNum and isListLike.                                    *)
(***************************************************************************)
isNum(usrData) == usrData.tag \in {"int", "float"}

isListLike(usrData) == usrData.tag = "list"

isString(usrData) == usrData.tag = "str"

\* str(x * 100) + "%": the percentage as webcolors reads it back with float()
percentStr(x) == [tag |-> "percent", v |-> 100 * Milli(x)]

(***************************************************************************)
(* getColor                                                                *)
(***************************************************************************)
colorMap ==
    [c \in {"b", "g", "r", "c", "m", "y", "k", "w"} |->
        CASE c = "b" -> "blue"
          [] c = "g" -> "green"
          [] c = "r" -> "red"
          [] c = "c" -> "cyan"
          [] c = "m" -> "magenta"
          [] c = "y" -> "yellow"
          [] c = "k" -> "black"
          [] c = "w" -> "white"]

getColorName(name) ==
    IF name \in DOMAIN css3_names_to_hex
    THEN Return(css3_names_to_hex[name])
    ELSE Raise("GraphException", "invalid color name: " \o name)

\* getColorString with the "#" cut off before the hexadecimal value is normalised
getColorStringHexTail(s) ==
    IF s = <<>> THEN Raise("IndexError", "string index out of range")
    ELSE IF s[1] = "#" THEN normalize_hex(Tail(s))
    ELSE LET color == normalise(s)
         IN  IF Len(color) = 1
             THEN IF color[1] \in DOMAIN colorMap
                  THEN getColorName(colorMap[color[1]])
                  ELSE Raise("GraphException", "invalid color abbreviation: " \o color[1])
             ELSE getColorName(Join(color))

\* getColorString with an unknown abbreviation passed on to the name table
getColorStringNoAbbreviationError(s) ==
    IF s = <<>> THEN Raise("IndexError", "string index out of range")
    ELSE IF s[1] = "#" THEN normalize_hex(s)
    ELSE LET color == normalise(s)
         IN  IF Len(color) = 1 /\ color[1] \in DOMAIN colorMap
             THEN getColorName(colorMap[color[1]])
             ELSE getColorName(Join(color))

getColorString(s) ==
    IF s = <<>> THEN Raise("IndexError", "string index out of range")
    ELSE IF s[1] = "#" THEN normalize_hex(s)
    ELSE LET color == normalise(s)
         IN  IF Len(color) = 1
             THEN IF color[1] \in DOMAIN colorMap
                  THEN getColorName(colorMap[color[1]])
                  ELSE Raise("GraphException", "invalid color abbreviation: " \o color[1])
             ELSE getColorName(Join(color))

\* getColorList with the percent test made element by element
getColorListPerElement(l, py2, clamps) ==
    LET percent == \E i \in 1..Len(l) : Milli(l[i]) < 1000
        color == IF percent /\ Len(l) = 1 THEN <<l[1], l[1], l[1]>> ELSE l
    IN  rgb_to_hex([i \in 1..Len(color) |->
                       IF Milli(color[i]) < 1000
                       THEN PyInt(_percent_to_integer(percentStr(color[i]).v))
                       ELSE color[i]],
                   py2, clamps)

getColorList(l, py2, clamps) ==
    LET percent == \E i \in 1..Len(l) : Milli(l[i]) < 1000
    IN  IF percent
        THEN LET color == IF Len(l) = 1 THEN <<l[1], l[1], l[1]>> ELSE l
             IN  rgb_percent_to_hex([i \in 1..Len(color) |-> percentStr(color[i])], py2, clamps)
        ELSE rgb_to_hex(l, py2, clamps)

\* (The message of the last error ends with the argument's repr, left out.)
getColor(color, py2, clamps) ==
    LET c == IF isNum(color) THEN PyList(<<color, color, color>>) ELSE color
    IN  IF isString(c) THEN getColorString(c.v)
        ELSE IF isListLike(c) THEN getColorList(c.v, py2, clamps)
        ELSE Raise("GraphException", "invalid color specification")


(***************************************************************************)
(* getExtendedModules                                                      *)
(***************************************************************************)
OptionalPackages == {"mpl_toolkits.mplot3d", "networkx"}

\* getExtendedModules with the import of networkx left unguarded
getExtendedModulesNetworkxUnguarded(missing, inst) ==
    IF "matplotlib" \in missing
    THEN [ret |-> Raise("GraphException", "could not find matplotlib, graphing is not allowed"),
          imported |-> <<>>,
          warned |-> FALSE]
    ELSE [ret |-> IF "networkx" \notin inst
                  THEN Raise("ImportError", "No module named networkx")
                  ELSE Return([matplotlib  |-> "matplotlib",
                               Axes3D      |-> IF "mpl_toolkits.mplot3d" \in inst THEN "Axes3D" ELSE "None",
                               collections |-> "matplotlib.collections",
                               patches     |-> "matplotlib.patches",
                               plt         |-> "matplotlib.pyplot",
                               networkx    |-> "networkx"]),
          imported |-> <<"matplotlib", "mpl_toolkits.mplot3d", "matplotlib.collections",
                         "matplotlib.patches", "matplotlib.pyplot", "networkx">>,
          warned |-> "mpl_toolkits.mplot3d" \notin inst]

\* The outcome, the imports attempted in order, and whether a warning was
\* logged.  _missingImport records whether matplotlib could be imported, so
\* matplotlib and the modules of its own package (collections, patches,
\* pyplot) import when it is not listed; mpl_toolkits.mplot3d and networkx
\* import when they are in inst.
getExtendedModules(missing, inst) ==
    IF "matplotlib" \in missing
    THEN [ret |-> Raise("GraphException", "could not find matplotlib, graphing is not allowed"),
          imported |-> <<>>,
          warned |-> FALSE]
    ELSE [ret |-> Return([matplotlib  |-> "matplotlib",
                          Axes3D      |-> IF "mpl_toolkits.mplot3d" \in inst THEN "Axes3D" ELSE "None",
                          collections |-> "matplotlib.collections",
                          patches     |-> "matplotlib.patches",
                          plt         |-> "matplotlib.pyplot",
                          networkx    |-> IF "networkx" \in inst THEN "networkx" ELSE "None"]),
          imported |-> <<"matplotlib", "mpl_toolkits.mplot3d", "matplotlib.collections",
                         "matplotlib.patches", "matplotlib.pyplot", "networkx">>,
          warned |-> "mpl_toolkits.mplot3d" \notin inst]

(***************************************************************************)
(* accidentalLabelToUnicode                                                *)
(***************************************************************************)
\* an excerpt of music21.pitch.unicodeFromModifier
unicodeFromModifier(modifier) ==
    CASE modifier = <<>>         -> <<"U+266E">>
      [] modifier = <<"-">>      -> <<"U+266D">>
      [] modifier = <<"#">>      -> <<"U+266F">>
      [] modifier = <<"-", "-">> -> <<"U+1D12B">>

Modifiers == {<<>>, <<"-">>, <<"#">>, <<"-", "-">>}

\* the orders in which the dictionary's items() may come
ItemOrders ==
    {o \in [1..Cardinality(Modifiers) -> Modifiers] : \A m \in Modifiers : \E i \in DOMAIN o : o[i] = m}

\* modifier in label
contains(label, modifier) ==
    \E i \in 0..(Len(label) - Len(modifier)) : SubSeq(label, i + 1, i + Len(modifier)) = modifier

\* label.replace(modifier, unicodeAcc), modifier not empty
RECURSIVE replace(_, _, _)
replace(label, modifier, unicodeAcc) ==
    IF Len(label) < Len(modifier) THEN label
    ELSE IF SubSeq(label, 1, Len(modifier)) = modifier
    THEN unicodeAcc \o replace(SubSeq(label, Len(modifier) + 1, Len(label)), modifier, unicodeAcc)
    ELSE <<Head(label)>> \o replace(Tail(label), modifier, unicodeAcc)

\* scanModifiers without the break
RECURSIVE scanModifiersNoBreak(_, _, _)
scanModifiersNoBreak(label, order, k) ==
    IF k > Len(order) THEN label
    ELSE LET modifier == order[k]
         IN  IF modifier # <<>> /\ contains(label, modifier) /\ modifier \in {<<"-">>, <<"#">>}
             THEN scanModifiersNoBreak(replace(label, modifier, unicodeFromModifier(modifier)), order, k + 1)
             ELSE scanModifiersNoBreak(label, order, k + 1)

RECURSIVE scanModifiers(_, _, _)
scanModifiers(label, order, k) ==
    IF k > Len(order) THEN label
    ELSE LET modifier == order[k]
         IN  IF modifier # <<>> /\ contains(label, modifier) /\ modifier \in {<<"-">>, <<"#">>}
             THEN replace(label, modifier, unicodeFromModifier(modifier))
             ELSE scanModifiers(label, order, k + 1)

\* (On Python 2 a str label is first made a unicode string of the same
\* characters, which the model does not tell apart.)
accidentalLabelToUnicode(label, order) ==
    IF ~isString(label) THEN label
    ELSE PyStr(scanModifiers(label.v, order, 1))

(***************************************************************************)
(* userFormatsToFormat and userValuesToValues                              *)
(***************************************************************************)
FORMATS == <<"horizontalbar", "histogram", "scatter", "scatterweighted",
             "3dbars", "colorgrid", "horizontalbarweighted">>

FORMAT_SYNONYMS == <<
    <<"horizontalbar", "bar", "horizontal", "pianoroll", "piano">>,
    <<"histogram", "histo", "count">>,
    <<"scatter", "point">>,
    <<"scatterweighted", "weightedscatter", "weighted">>,
    <<"3dbars", "3d">>,
    <<"colorgrid", "grid", "window", "windowed">>,
    <<"horizontalbarweighted", "barweighted", "weightedbar">> >>

\* scanFormats returning the synonym that matched
RECURSIVE scanFormatsKeepsSynonym(_, _)
scanFormatsKeepsSynonym(value, k) ==
    IF k > Len(FORMAT_SYNONYMS) THEN value
    ELSE LET opt == FORMAT_SYNONYMS[k]
         IN  IF \E j \in 1..Len(opt) : opt[j] = value
             THEN value
             ELSE scanFormatsKeepsSynonym(value, k + 1)

RECURSIVE scanFormats(_, _)
scanFormats(value, k) ==
    IF k > Len(FORMAT_SYNONYMS) THEN value
    ELSE LET opt == FORMAT_SYNONYMS[k]
         IN  IF \E j \in 1..Len(opt) : opt[j] = value
             THEN opt[1]
             ELSE scanFormats(value, k + 1)

userFormatsToFormat(value) == scanFormats(Join(normalise(value)), 1)

\* userValueToValue with the duration group resolved to "duration"
userValueToValueDuration(v) ==
    LET value == Join(normalise(v))
    IN  IF value \in {"pitch", "pitchspace", "ps"} THEN "pitch"
        ELSE IF value \in {"pitchclass", "pc"} THEN "pitchclass"
        ELSE IF value \in {"duration", "quarterlength"} THEN "duration"
        ELSE IF value \in {"offset", "time"} THEN "offset"
        ELSE IF value \in {"dynamic", "dynamics"} THEN "dynamics"
        ELSE IF value \in {"instrument", "instruments", "instrumentation"} THEN "instrument"
        ELSE value

userValueToValue(v) ==
    LET value == Join(normalise(v))
    IN  IF value \in {"pitch", "pitchspace", "ps"} THEN "pitch"
        ELSE IF value \in {"pitchclass", "pc"} THEN "pitchclass"
        ELSE IF value \in {"duration", "quarterlength"} THEN "quarterlength"
        ELSE IF value \in {"offset", "time"} THEN "offset"
        ELSE IF value \in {"dynamic", "dynamics"} THEN "dynamics"
        ELSE IF value \in {"instrument", "instruments", "instrumentation"} THEN "instrument"
        ELSE value

RECURSIVE userValuesToValues(_)
userValuesToValues(valueList) ==
    IF valueList = <<>> THEN <<>>
    ELSE <<userValueToValue(Head(valueList))>> \o userValuesToValues(Tail(valueList))

(***************************************************************************)
(* The inputs the calls are made with.                                     *)
(***************************************************************************)
FormatSamples ==
    { <<"h","o","r","i","z","o","n","t","a","l">>,
      <<"W","e","i","g","h","t","e","d"," ","S","c","a","t","t","e","r">>,
      <<"3","D">>,
      <<"4","D"," ","s","u","p","e","r"," ","c","h","a","r","t">>,
      <<"b","a","r">>,
      <<"P","i","a","n","o"," ","R","o","l","l">>,
      <<"H","I","S","T","O">>,
      <<"c","o","u","n","t">>,
      <<"p","o","i","n","t">>,
      <<"w","e","i","g","h","t","e","d">>,
      <<"G","r","i","d">>,
      <<"w","i","n","d","o","w","e","d">>,
      <<"w","e","i","g","h","t","e","d","b","a","r">>,
      <<"B","a","r"," ","W","e","i","g","h","t","e","d">>,
      <<"s","c","a","t","t","e","r">>,
      <<"c","o","l","o","r","g","r","i","d">>,
      <<"3","d","b","a","r","s">>,
      <<"p","i","e">>,
      <<>> }

FormatInputs == FormatSamples \cup SeqsUpTo({"3", "D", " "}, MaxStrLen)

ValueSamples ==
    { <<"p","i","t","c","h","S","p","a","c","e">>,
      <<"D","u","r","a","t","i","o","n">>,
      <<"P","i","t","c","h"," ","C","l","a","s","s">>,
      <<"p","c">>,
      <<"q","u","a","r","t","e","r","L","e","n","g","t","h">>,
      <<"T","i","m","e">>,
      <<"D","y","n","a","m","i","c","s">>,
      <<"I","n","s","t","r","u","m","e","n","t","s">>,
      <<"v","e","l","o","c","i","t","y">>,
      <<>> }

ValueInputs == SeqsUpTo(ValueSamples, MaxValues)

ColorSamples ==
    { <<"r","e","d">>,
      <<"S","t","e","e","l"," ","B","l","u","e">>,
      <<"S","T","E","E","L","B","L","U","E">>,
      <<"c","h","a","l","k","y">>,
      <<"#","F","F","5","5","0","0">>,
      <<"#","f","f","5","5","0","0">>,
      <<"#","F","f","5","5","0","0","\n">>,
      <<"#","f","f","5","5","0","0","1">>,
      <<"#","f","f","5","5","0","g">>,
      <<"#","4","6","8","2","B","4">>,
      <<"k">>,
      <<"r">>,
      <<"R"," ">>,
      <<"#","f","5","0">>,
      <<"W">>,
      <<" ","y"," ">>,
      <<"m">>,
      <<"C">>,
      <<"b">>,
      <<"l">>,
      <<"L"," ">>,
      <<"w","h","i","t","e">>,
      <<"B","l","a","c","k">>,
      <<"b","l","u","e">>,
      <<"g","r","e","e","n">>,
      <<"c","y","a","n">>,
      <<"m","a","g","e","n","t","a">>,
      <<"y","e","l","l","o","w">>,
      <<"g","r","a","y">>,
      <<"#","1","2","3","4","5">>,
      <<"g","r"," ","a","y">> }

ColorStrings == ColorSamples \cup SeqsUpTo({"#", "f", "F", "g", " "}, MaxStrLen)

Numbers ==
    {PyInt(n) : n \in {-1, 0, 1, 255, 256}} \cup {PyFloat(m) : m \in {500, 1000}}

ColorInputs ==
    {PyStr(s) : s \in ColorStrings} \cup Numbers
        \cup {PyList(l) : l \in SeqsUpTo(Numbers, MaxListLen)}
        \cup {PyBool(TRUE), PyBool(FALSE), PyNone}

LabelInputs ==
    {PyStr(s) : s \in SeqsUpTo({"B", "-", "#"}, MaxStrLen)} \cup {PyInt(4), PyNone}

(***************************************************************************)
(* The state machine: one action per function of the module.  The module   *)
(* is synchronous and single-threaded: a call is made when no other is in  *)
(* progress (op = "none").                                                 *)
(***************************************************************************)
Init ==
    /\ _missingImport \in SUBSET {"matplotlib", "scipy"}
    /\ installed \in SUBSET OptionalPackages
    /\ PY2 \in BOOLEAN
    /\ webcolorsClamps \in BOOLEAN
    /\ imported = <<>>
    /\ itemOrder = <<>>
    /\ warned = FALSE
    /\ op = "none"
    /\ arg = PyNone
    /\ ret = Return(PyNone)

GetExtendedModules ==
    LET r == getExtendedModules(_missingImport, installed)
    IN  /\ op = "none"
        /\ op' = "getExtendedModules"
        /\ arg' = PyNone
        /\ ret' = r.ret
        /\ imported' = r.imported
        /\ itemOrder' = <<>>
        /\ warned' = r.warned
        /\ UNCHANGED env

AccidentalLabelToUnicode ==
    /\ op = "none"
    /\ \E label \in LabelInputs, order \in ItemOrders :
        /\ op' = "accidentalLabelToUnicode"
        /\ arg' = label
        /\ ret' = Return(accidentalLabelToUnicode(label, order))
        /\ imported' = <<>>
        /\ itemOrder' = order
        /\ warned' = FALSE
        /\ UNCHANGED env

UserFormatsToFormat ==
    /\ op = "none"
    /\ \E value \in FormatInputs :
        /\ op' = "userFormatsToFormat"
        /\ arg' = PyStr(value)
        /\ ret' = Return(userFormatsToFormat(value))
        /\ imported' = <<>>
        /\ itemOrder' = <<>>
        /\ warned' = FALSE
        /\ UNCHANGED env

UserValuesToValues ==
    /\ op = "none"
    /\ \E valueList \in ValueInputs :
        /\ op' = "userValuesToValues"
        /\ arg' = PyList(valueList)
        /\ ret' = Return(userValuesToValues(valueList))
        /\ imported' = <<>>
        /\ itemOrder' = <<>>
        /\ warned' = FALSE
        /\ UNCHANGED env

GetColor ==
    /\ op = "none"
    /\ \E color \in ColorInputs :
        /\ op' = "getColor"
        /\ arg' = color
        /\ ret' = getColor(color, PY2, webcolorsClamps)
        /\ imported' = <<>>
        /\ itemOrder' = <<>>
        /\ warned' = FALSE
        /\ UNCHANGED env

\* the caller takes the outcome; the module keeps nothing of the call
Done ==
    /\ op # "none"
    /\ op' = "none"
    /\ arg' = PyNone
    /\ ret' = Return(PyNone)
    /\ imported' = <<>>
    /\ itemOrder' = <<>>
    /\ warned' = FALSE
    /\ UNCHANGED env

Next ==
    \/ Done
    \/ GetExtendedModules
    \/ AccidentalLabelToUnicode
    \/ UserFormatsToFormat
    \/ UserValuesToValues
    \/ GetColor

Spec == Init /\ [][Next]_vars

(***************************************************************************)
(* The properties.                                                         *)
(***************************************************************************)
LowerHexChars == {HexLower[i] : i \in 1..16}

\* "#" followed by exactly 6 lowercase hexadecimal digits
IsHexColor(s) == Len(s) = 7 /\ s[1] = "#" /\ \A i \in 2..7 : s[i] \in LowerHexChars

\* a valid 3- or 6-digit hexadecimal value
IsHexDigits(d) == Len(d) \in {3, 6} /\ \A i \in 1..Len(d) : d[i] \in HexChars

\* its fully expanded lowercase form
Expanded(d) ==
    IF Len(d) = 3 THEN [i \in 1..6 |-> lowerChar(d[(i + 1) \div 2])]
    ELSE [i \in 1..6 |-> lowerChar(d[i])]

IsHexString(x) == x.tag = "str" /\ Len(x.v) > 0 /\ x.v[1] = "#"

\* C1: getColor returns "#" and 6 lowercase hexadecimal digits or fails with
\* GraphException: no malformed colour string, no other kind of error.
C1_WellFormedOrGraphException ==
    op = "getColor" =>
        \/ ret.kind = "return" /\ IsHexColor(ret.val)
        \/ ret.kind = "raise" /\ ret.exc = "GraphException"

\* C2: for a string starting with "#", getColor returns the expanded lowercase
\* 6-digit form of a valid 3- or 6-digit value and fails with GraphException
\* on a malformed one.
C2_HexNormalisedOrGraphException ==
    (op = "getColor" /\ IsHexString(arg)) =>
        IF IsHexDigits(Tail(arg.v))
        THEN ret = Return(<<"#">> \o Expanded(Tail(arg.v)))
        ELSE ret.kind = "raise" /\ ret.exc = "GraphException"

\* the group of FORMAT_SYNONYMS number g contains n
InGroup(n, g) == \E j \in 1..Len(FORMAT_SYNONYMS[g]) : FORMAT_SYNONYMS[g][j] = n

\* C3: userFormatsToFormat returns the first member of the synonym group that
\* contains the lowercased, space-stripped input, a member of FORMATS; it
\* returns the normalised input itself when no group contains it.
C3_CanonicalFormat ==
    op = "userFormatsToFormat" =>
        LET n == Join(normalise(arg.v))
        IN  /\ ret.kind = "return"
            /\ \A g \in 1..Len(FORMAT_SYNONYMS) :
                   InGroup(n, g) =>
                       /\ ret.val = FORMAT_SYNONYMS[g][1]
                       /\ \E f \in 1..Len(FORMATS) : FORMATS[f] = ret.val
            /\ (\A g \in 1..Len(FORMAT_SYNONYMS) : ~InGroup(n, g)) => ret.val = n

C3_Witness ==
    /\ op = "userFormatsToFormat"
    /\ arg.v = <<"W","e","i","g","h","t","e","d"," ","S","c","a","t","t","e","r">>
    /\ ret = Return("scatterweighted")

\* the fixed synonym mapping of the value resolver
ValueSynonyms ==
    [n \in {"pitch", "pitchspace", "ps", "pitchclass", "pc", "duration", "quarterlength",
            "offset", "time", "dynamic", "dynamics",
            "instrument", "instruments", "instrumentation"} |->
        CASE n \in {"pitch", "pitchspace", "ps"} -> "pitch"
          [] n \in {"pitchclass", "pc"} -> "pitchclass"
          [] n \in {"duration", "quarterlength"} -> "quarterlength"
          [] n \in {"offset", "time"} -> "offset"
          [] n \in {"dynamic", "dynamics"} -> "dynamics"
          [] n \in {"instrument", "instruments", "instrumentation"} -> "instrument"]

\* C4: userValuesToValues returns a list of the length and order of its input;
\* the element at a position is the canonical identifier of the input element
\* there, or that element lowercased and space-stripped when it is no synonym,
\* and is what the element alone resolves to.
C4_ElementWise ==
    op = "userValuesToValues" =>
        /\ ret.kind = "return"
        /\ Len(ret.val) = Len(arg.v)
        /\ \A i \in 1..Len(arg.v) :
               LET n == Join(normalise(arg.v[i]))
               IN  /\ ret.val[i] = IF n \in DOMAIN ValueSynonyms THEN ValueSynonyms[n] ELSE n
                   /\ ret.val[i] = userValuesToValues(<<arg.v[i]>>)[1]

C4_Witness ==
    /\ op = "userValuesToValues"
    /\ arg.v = << <<"p","i","t","c","h","S","p","a","c","e">>, <<"D","u","r","a","t","i","o","n">> >>
    /\ ret = Return(<<"pitch", "quarterlength">>)

\* C5: on a valid hexadecimal colour string (3 or 6 digits, any case),
\* getColor applied to its own result returns that result.
C5_Idempotent ==
    (op = "getColor" /\ IsHexString(arg) /\ IsHexDigits(Tail(arg.v))) =>
        /\ ret.kind = "return"
        /\ getColor(PyStr(ret.val), PY2, webcolorsClamps) = ret

C5_Witness ==
    /\ op = "getColor"
    /\ IsHexString(arg)
    /\ IsHexDigits(Tail(arg.v))
    /\ ret.kind = "return"
    /\ ret.val # arg.v

\* a fraction in [0, 1] or an integer in [0, 255]
IsChannel(x) ==
    \/ x.tag = "float" /\ x.v >= 0 /\ x.v <= 1000
    \/ x.tag = "int" /\ x.v >= 0 /\ x.v <= 255

\* C6: for a fraction x in [0,1] or an integer x in [0,255], getColor([x])
\* succeeds and returns the colour of getColor(x) and of getColor([x, x, x]).
C6_OneElementSequence ==
    (op = "getColor" /\ arg.tag = "list" /\ Len(arg.v) = 1 /\ IsChannel(arg.v[1])) =>
        LET x == arg.v[1]
        IN  /\ ret.kind = "return"
            /\ ret = getColor(x, PY2, webcolorsClamps)
            /\ ret = getColor(PyList(<<x, x, x>>), PY2, webcolorsClamps)

\* C7: getExtendedModules fails, with GraphException, exactly when matplotlib
\* is in _missingImport, and then before any import; otherwise it returns the
\* bundle, in which Axes3D and networkx are None exactly when they could not
\* be imported.
C7_Loader ==
    op = "getExtendedModules" =>
        /\ ret.kind = "raise" <=> "matplotlib" \in _missingImport
        /\ ret.kind = "raise" => ret.exc = "GraphException" /\ imported = <<>>
        /\ ret.kind = "return" =>
               /\ ret.val.Axes3D = "None" <=> "mpl_toolkits.mplot3d" \notin installed
               /\ ret.val.networkx = "None" <=> "networkx" \notin installed
               /\ "None" \notin {ret.val.matplotlib, ret.val.collections, ret.val.patches, ret.val.plt}

C7_Witness ==
    /\ op = "getExtendedModules"
    /\ installed = {}
    /\ ret.kind = "return"
    /\ ret.val.Axes3D = "None"
    /\ ret.val.networkx = "None"

\* the names the 8 abbreviations stand for
AbbreviationNames ==
    [c \in {"b", "g", "r", "c", "m", "y", "k", "w"} |->
        CASE c = "b" -> <<"b","l","u","e">>
          [] c = "g" -> <<"g","r","e","e","n">>
          [] c = "r" -> <<"r","e","d">>
          [] c = "c" -> <<"c","y","a","n">>
          [] c = "m" -> <<"m","a","g","e","n","t","a">>
          [] c = "y" -> <<"y","e","l","l","o","w">>
          [] c = "k" -> <<"b","l","a","c","k">>
          [] c = "w" -> <<"w","h","i","t","e">>]

IsOneCharacter(x) ==
    x.tag = "str" /\ Len(x.v) > 0 /\ x.v[1] # "#" /\ Len(normalise(x.v)) = 1

\* C8: for a string not starting with "#" whose lowercased, space-stripped
\* form is one character c, getColor returns the colour of the full name when
\* c is one of the 8 abbreviations and otherwise fails with GraphException
\* "invalid color abbreviation: c".
C8_Abbreviation ==
    (op = "getColor" /\ IsOneCharacter(arg)) =>
        LET c == normalise(arg.v)[1]
        IN  IF c \in DOMAIN AbbreviationNames
            THEN /\ ret.kind = "return"
                 /\ ret = getColor(PyStr(AbbreviationNames[c]), PY2, webcolorsClamps)
            ELSE ret = Raise("GraphException", "invalid color abbreviation: " \o c)

C8_Witness ==
    /\ op = "getColor"
    /\ arg = PyStr(<<" ", "y", " ">>)
    /\ ret = Return(<<"#","f","f","f","f","0","0">>)

\* the two digits of channel i of a colour string
Channel(s, i) == SubSeq(s, 2 * i, 2 * i + 1)

IsTriple(x) == x.tag = "list" /\ Len(x.v) = 3

\* C9 as stated: in a sequence holding a fraction below 1 and a value of
\* exactly 1, the 1 is channel value 1 of 255.
C9_OneIsIntegerChannel ==
    (/\ op = "getColor"
     /\ IsTriple(arg)
     /\ \A i \in 1..3 : IsChannel(arg.v[i]) /\ Milli(arg.v[i]) <= 1000
     /\ \E i \in 1..3 : Milli(arg.v[i]) > 0 /\ Milli(arg.v[i]) < 1000) =>
        /\ ret.kind = "return"
        /\ \A i \in 1..3 : Milli(arg.v[i]) = 1000 => Channel(ret.val, i) = <<"0", "1">>

\* C9 amended: in a three-element sequence of values in [0,1] holding a value
\* below 1, every element is a fraction, and a value of exactly 1 is 100%
\* (channel ff); exactly 1 is channel value 1 (01) only in a sequence of
\* integers of which none is below 1.
C9_OneIsFullScale ==
    (op = "getColor" /\ IsTriple(arg)) =>
        /\ ((\A i \in 1..3 : IsChannel(arg.v[i]) /\ Milli(arg.v[i]) <= 1000)
               /\ (\E i \in 1..3 : Milli(arg.v[i]) < 1000)) =>
               /\ ret.kind = "return"
               /\ IsHexColor(ret.val)
               /\ \A i \in 1..3 : Milli(arg.v[i]) = 1000 => Channel(ret.val, i) = <<"f", "f">>
        /\ (\A i \in 1..3 : arg.v[i].tag = "int" /\ arg.v[i].v >= 1 /\ arg.v[i].v <= 255) =>
               /\ ret.kind = "return"
               /\ IsHexColor(ret.val)
               /\ \A i \in 1..3 : arg.v[i].v = 1 => Channel(ret.val, i) = <<"0", "1">>

C9_Witness ==
    /\ op = "getColor"
    /\ arg = PyList(<<PyFloat(500), PyInt(1), PyFloat(500)>>)
    /\ ret = Return(<<"#","8","0","f","f","8","0">>)

\* the positions of itemOrder holding a convertible modifier found in label
Matching(label) ==
    {k \in 1..Len(itemOrder) :
        /\ itemOrder[k] \in {<<"-">>, <<"#">>}
        /\ \E i \in 1..Len(label) : label[i] = itemOrder[k][1]}

\* C10: accidentalLabelToUnicode returns a label that is no string unchanged;
\* in a string it replaces every occurrence of the first modifier among "-"
\* and "#" that the label contains by its glyph and nothing else, so the
\* other modifier stays, and a label with neither is returned unchanged.
C10_FirstModifierOnly ==
    op = "accidentalLabelToUnicode" =>
        /\ ret.kind = "return"
        /\ IF arg.tag # "str" THEN ret.val = arg
           ELSE LET label == arg.v
                    out == ret.val.v
                IN  IF Matching(label) = {} THEN out = label
                    ELSE LET k == CHOOSE j \in Matching(label) : \A h \in Matching(label) : j <= h
                             m == itemOrder[k][1]
                             glyph == IF m = "-" THEN "U+266D" ELSE "U+266F"
                         IN  /\ Len(out) = Len(label)
                             /\ \A i \in 1..Len(label) :
                                    out[i] = IF label[i] = m THEN glyph ELSE label[i]

C10_Witness ==
    /\ op = "accidentalLabelToUnicode"
    /\ arg = PyStr(<<"B", "-", "#">>)
    /\ ret = Return(PyStr(<<"B", "-", "U+266F">>))

====
